---------------------------- MODULE Spec2Model ----------------------------
(***************************************************************************)
(* Bus route simulator (src/BUS_ROUTE_SIM.c): a circular doubly-linked     *)
(* list of stops, the global head pointer and the global id counter, the   *)
(* CSV save/load and the menu that drives them.                            *)
(*                                                                         *)
(* Representation                                                          *)
(*  - a pointer is a natural number, NULL is 0; mem maps every allocated   *)
(*    address to its Stop; malloc returns a free address and free        *)
(*    removes the address from the domain of mem, so a dangling pointer is *)
(*    an address outside DOMAIN mem;                                       *)
(*  - a C string is a sequence of one-character strings;                   *)
(*  - a double is an integer number of ticks (one tick is 10^-7) that has  *)
(*    at most SigDigits significant decimal digits; an addition rounds its *)
(*    exact result to the nearest such number, ties to even, as IEEE       *)
(*    arithmetic does with 53 bits;                                        *)
(*  - a file is the sequence of its characters.                            *)
(***************************************************************************)
EXTENDS Integers, Sequences, FiniteSets, TLC

VARIABLES head, mem, next_id, fs, op, issued

vars == <<head, mem, next_id, fs, op, issued>>

(***************************************************************************)
(* Program constants and model bounds                                      *)
(***************************************************************************)
NULL == 0

NAME_LEN == 64

LINE_LEN == 256

\* longest route the menu's insertions build (malloc is unbounded in the code)
MaxStops == 3

\* largest id create_stop hands out (next_id is an unbounded int in the code)
MaxId == 6

\* significant decimal digits of the model's double
SigDigits == 2

(***************************************************************************)
(* Characters and strings                                                  *)
(***************************************************************************)
UpperCase == <<"A", "B", "C", "D", "E", "F", "G", "H", "I", "J", "K", "L", "M",
               "N", "O", "P", "Q", "R", "S", "T", "U", "V", "W", "X", "Y", "Z">>

LowerCase == <<"a", "b", "c", "d", "e", "f", "g", "h", "i", "j", "k", "l", "m",
               "n", "o", "p", "q", "r", "s", "t", "u", "v", "w", "x", "y", "z">>

DigitChars == <<"0", "1", "2", "3", "4", "5", "6", "7", "8", "9">>

\* tolower of the C locale
tolower(c) ==
    IF \E i \in 1..26 : UpperCase[i] = c
    THEN LowerCase[CHOOSE i \in 1..26 : UpperCase[i] = c]
    ELSE c

\* strcasecmp(a, b): 0 when the strings are equal after case folding
strcasecmp(a, b) ==
    IF Len(a) = Len(b) /\ \A i \in 1..Len(a) : tolower(a[i]) = tolower(b[i])
    THEN 0 ELSE 1

\* strcmp(a, b) as the menu uses it: 0 exactly when the strings are equal
strcmp(a, b) == IF a = b THEN 0 ELSE 1

\* strncpy(dst, src, n) followed by dst[n] = '\0': the first n characters
strncpy(src, n) == IF Len(src) <= n THEN src ELSE SubSeq(src, 1, n)

(***************************************************************************)
(* double                                                                  *)
(***************************************************************************)
RECURSIVE Pow10(_)
Pow10(k) == IF k <= 0 THEN 1 ELSE 10 * Pow10(k - 1)

RECURSIVE NumDigits(_)
NumDigits(n) == IF n < 10 THEN 1 ELSE 1 + NumDigits(n \div 10)

\* n / u rounded to the nearest integer, ties to even (n >= 0, u > 0)
RoundHalfEven(n, u) ==
    LET q == n \div u
        r == n % u
    IN  IF 2 * r < u THEN q
        ELSE IF 2 * r > u THEN q + 1
        ELSE IF q % 2 = 0 THEN q ELSE q + 1

\* the double nearest to the exact value n
RoundAbs(n) ==
    IF n < Pow10(SigDigits) THEN n
    ELSE LET u == Pow10(NumDigits(n) - SigDigits)
         IN  u * RoundHalfEven(n, u)

RoundDouble(n) == IF n < 0 THEN 0 - RoundAbs(0 - n) ELSE RoundAbs(n)

IsDouble(n) == RoundDouble(n) = n

\* x + y on doubles
DAdd(x, y) == RoundDouble(x + y)

\* ticks in one unit (1.0)
Unit == Pow10(7)

(***************************************************************************)
(* The heap and the program state                                          *)
(*                                                                         *)
(* The C functions below work on R = [head, mem, next_id], the globals of  *)
(* the program and the heap, and give the state after the call.            *)
(***************************************************************************)
\* malloc(sizeof(Stop)): some address that is not allocated.  The program
\* only dereferences addresses and compares them for equality, so which free
\* address comes back does not matter: the model takes address n when it is
\* free (n is the id the caller is about to store) and the lowest free
\* address otherwise.
malloc(m, n) ==
    IF n \notin DOMAIN m THEN n
    ELSE CHOOSE a \in 1..(Cardinality(DOMAIN m) + 1) :
            a \notin DOMAIN m /\ \A b \in 1..(a - 1) : b \in DOMAIN m

\* free(p)
free(m, p) == [a \in (DOMAIN m) \ {p} |-> m[a]]

EmptyHeap == [a \in {} |-> 0]

\* create_stop reading next_id without advancing it: s->id = next_id
create_stop_keeps_next_id(R, name, passengers, dist_to_next, time_to_next) ==
    LET s == malloc(R.mem, R.next_id)
        stop == [id           |-> R.next_id,
                 name         |-> strncpy(name, NAME_LEN - 1),
                 passengers   |-> passengers,
                 dist_to_next |-> dist_to_next,
                 time_to_next |-> time_to_next,
                 prev         |-> NULL,
                 next         |-> NULL]
    IN  [head    |-> R.head,
         mem     |-> [a \in (DOMAIN R.mem) \cup {s} |->
                          IF a = s THEN stop ELSE R.mem[a]],
         next_id |-> R.next_id]

\* Stop *create_stop(name, passengers, dist_to_next, time_to_next): the state
\* after the call; the pointer it returns is malloc(R.mem, R.next_id)
create_stop(R, name, passengers, dist_to_next, time_to_next) ==
    LET s == malloc(R.mem, R.next_id)
        stop == [id           |-> R.next_id,
                 name         |-> strncpy(name, NAME_LEN - 1),
                 passengers   |-> passengers,
                 dist_to_next |-> dist_to_next,
                 time_to_next |-> time_to_next,
                 prev         |-> NULL,
                 next         |-> NULL]
    IN  [head    |-> R.head,
         mem     |-> [a \in (DOMAIN R.mem) \cup {s} |->
                          IF a = s THEN stop ELSE R.mem[a]],
         next_id |-> R.next_id + 1]

\* insert_end without its last assignment, head->prev = node
insert_end_no_back_link(R, node) ==
    IF node = NULL THEN R
    ELSE IF R.head = NULL
    THEN LET m1 == [R.mem EXCEPT ![node].prev = node]
             m2 == [m1 EXCEPT ![node].next = m1[node].prev]
         IN  [R EXCEPT !.head = node, !.mem = m2]
    ELSE LET tail == R.mem[R.head].prev
             m1 == [R.mem EXCEPT ![tail].next = node]
             m2 == [m1 EXCEPT ![node].prev = tail]
             m3 == [m2 EXCEPT ![node].next = R.head]
         IN  [R EXCEPT !.mem = m3]

\* void insert_end(Stop *node)
insert_end(R, node) ==
    IF node = NULL THEN R
    ELSE IF R.head = NULL
    THEN LET m1 == [R.mem EXCEPT ![node].prev = node]
             m2 == [m1 EXCEPT ![node].next = m1[node].prev]
         IN  [R EXCEPT !.head = node, !.mem = m2]
    ELSE LET tail == R.mem[R.head].prev
             m1 == [R.mem EXCEPT ![tail].next = node]
             m2 == [m1 EXCEPT ![node].prev = tail]
             m3 == [m2 EXCEPT ![node].next = R.head]
             m4 == [m3 EXCEPT ![R.head].prev = node]
         IN  [R EXCEPT !.mem = m4]

\* the loop of find_by_name remembering a match and walking on: the last
\* matching stop is returned
RECURSIVE FindNameLoopLast(_, _, _)
FindNameLoopLast(R, cur, name) ==
    LET nx == R.mem[cur].next
        later == IF nx # R.head THEN FindNameLoopLast(R, nx, name) ELSE NULL
    IN  IF later # NULL THEN later
        ELSE IF strcasecmp(R.mem[cur].name, name) = 0 THEN cur
        ELSE NULL

\* the do-while loop of find_by_name, from cur
RECURSIVE FindNameLoop(_, _, _)
FindNameLoop(R, cur, name) ==
    IF strcasecmp(R.mem[cur].name, name) = 0 THEN cur
    ELSE LET nx == R.mem[cur].next
         IN  IF nx # R.head THEN FindNameLoop(R, nx, name) ELSE NULL

\* Stop *find_by_name(const char *name)
find_by_name(R, name) ==
    IF R.head = NULL THEN NULL ELSE FindNameLoop(R, R.head, name)

\* the do-while loop of find_by_id, from cur
RECURSIVE FindIdLoop(_, _, _)
FindIdLoop(R, cur, id) ==
    IF R.mem[cur].id = id THEN cur
    ELSE LET nx == R.mem[cur].next
         IN  IF nx # R.head THEN FindIdLoop(R, nx, id) ELSE NULL

\* Stop *find_by_id(int id)
find_by_id(R, id) ==
    IF R.head = NULL THEN NULL ELSE FindIdLoop(R, R.head, id)

\* insert_after splicing on the wrong side: newstop goes between the
\* predecessor of existing and existing
insert_after_before(R, existing, newstop) ==
    IF newstop = NULL THEN R
    ELSE IF existing = NULL THEN insert_end(R, newstop)
    ELSE LET prv == R.mem[existing].prev
             m1 == [R.mem EXCEPT ![existing].prev = newstop]
             m2 == [m1 EXCEPT ![newstop].next = existing]
             m3 == [m2 EXCEPT ![newstop].prev = prv]
             m4 == [m3 EXCEPT ![prv].next = newstop]
         IN  [R EXCEPT !.mem = m4]

\* void insert_after(Stop *existing, Stop *newstop)
insert_after(R, existing, newstop) ==
    IF newstop = NULL THEN R
    ELSE IF existing = NULL THEN insert_end(R, newstop)
    ELSE LET nxt == R.mem[existing].next
             m1 == [R.mem EXCEPT ![existing].next = newstop]
             m2 == [m1 EXCEPT ![newstop].prev = existing]
             m3 == [m2 EXCEPT ![newstop].next = nxt]
             m4 == [m3 EXCEPT ![nxt].prev = newstop]
         IN  [R EXCEPT !.mem = m4]

\* the loop of insert_at_position with the test idx < pos: the walk goes one
\* stop too far
RECURSIVE PositionLoopOneMore(_, _, _, _)
PositionLoopOneMore(R, cur, idx, pos) ==
    IF R.mem[cur].next # R.head /\ idx < pos
    THEN PositionLoopOneMore(R, R.mem[cur].next, idx + 1, pos)
    ELSE cur

\* the while loop of insert_at_position: the stop it ends on
RECURSIVE PositionLoop(_, _, _, _)
PositionLoop(R, cur, idx, pos) ==
    IF R.mem[cur].next # R.head /\ idx < pos - 1
    THEN PositionLoop(R, R.mem[cur].next, idx + 1, pos)
    ELSE cur

\* insert_at_position with the test written pos == 1: a position of 0 or less
\* goes to the walk and the new stop lands after head
insert_at_position_from_one(R, newstop, pos) ==
    IF newstop = NULL THEN R
    ELSE IF R.head = NULL
    THEN LET m1 == [R.mem EXCEPT ![newstop].prev = newstop]
             m2 == [m1 EXCEPT ![newstop].next = m1[newstop].prev]
         IN  [R EXCEPT !.head = newstop, !.mem = m2]
    ELSE IF pos = 1
    THEN LET tail == R.mem[R.head].prev
             m1 == [R.mem EXCEPT ![newstop].next = R.head]
             m2 == [m1 EXCEPT ![newstop].prev = tail]
             m3 == [m2 EXCEPT ![tail].next = newstop]
             m4 == [m3 EXCEPT ![R.head].prev = newstop]
         IN  [R EXCEPT !.head = newstop, !.mem = m4]
    ELSE insert_after(R, PositionLoop(R, R.head, 1, pos), newstop)

\* void insert_at_position(Stop *newstop, int pos)
insert_at_position(R, newstop, pos) ==
    IF newstop = NULL THEN R
    ELSE IF R.head = NULL \/ pos <= 1
    THEN IF R.head = NULL
         THEN LET m1 == [R.mem EXCEPT ![newstop].prev = newstop]
                  m2 == [m1 EXCEPT ![newstop].next = m1[newstop].prev]
              IN  [R EXCEPT !.head = newstop, !.mem = m2]
         ELSE LET tail == R.mem[R.head].prev
                  m1 == [R.mem EXCEPT ![newstop].next = R.head]
                  m2 == [m1 EXCEPT ![newstop].prev = tail]
                  m3 == [m2 EXCEPT ![tail].next = newstop]
                  m4 == [m3 EXCEPT ![R.head].prev = newstop]
              IN  [R EXCEPT !.head = newstop, !.mem = m4]
    ELSE insert_after(R, PositionLoop(R, R.head, 1, pos), newstop)

\* delete_by_name moving head the wrong way: head = target->prev when the
\* stop removed is head
delete_by_name_head_to_prev(R, name) ==
    LET target == find_by_name(R, name)
    IN  IF target = NULL THEN [R |-> R, ret |-> 0]
        ELSE IF R.mem[target].next = target
        THEN [R |-> [R EXCEPT !.mem = free(R.mem, target), !.head = NULL],
              ret |-> 1]
        ELSE LET p == R.mem[target].prev
                 n == R.mem[target].next
                 m1 == [R.mem EXCEPT ![p].next = n]
                 m2 == [m1 EXCEPT ![n].prev = p]
                 h == IF target = R.head THEN p ELSE R.head
             IN  [R |-> [R EXCEPT !.mem = free(m2, target), !.head = h],
                  ret |-> 1]

\* delete_by_name handing the leg of the stop removed to its predecessor:
\* target->prev->dist_to_next += target->dist_to_next, and the time likewise
delete_by_name_merges_legs(R, name) ==
    LET target == find_by_name(R, name)
    IN  IF target = NULL THEN [R |-> R, ret |-> 0]
        ELSE IF R.mem[target].next = target
        THEN [R |-> [R EXCEPT !.mem = free(R.mem, target), !.head = NULL],
              ret |-> 1]
        ELSE LET p == R.mem[target].prev
                 n == R.mem[target].next
                 m0 == [R.mem EXCEPT
                          ![p].dist_to_next =
                              DAdd(@, R.mem[target].dist_to_next),
                          ![p].time_to_next =
                              DAdd(@, R.mem[target].time_to_next)]
                 m1 == [m0 EXCEPT ![p].next = n]
                 m2 == [m1 EXCEPT ![n].prev = p]
                 h == IF target = R.head THEN n ELSE R.head
             IN  [R |-> [R EXCEPT !.mem = free(m2, target), !.head = h],
                  ret |-> 1]

\* delete_by_name returning 1 on every path, a miss included
delete_by_name_always_one(R, name) ==
    LET target == find_by_name(R, name)
    IN  IF target = NULL THEN [R |-> R, ret |-> 1]
        ELSE IF R.mem[target].next = target
        THEN [R |-> [R EXCEPT !.mem = free(R.mem, target), !.head = NULL],
              ret |-> 1]
        ELSE LET p == R.mem[target].prev
                 n == R.mem[target].next
                 m1 == [R.mem EXCEPT ![p].next = n]
                 m2 == [m1 EXCEPT ![n].prev = p]
                 h == IF target = R.head THEN n ELSE R.head
             IN  [R |-> [R EXCEPT !.mem = free(m2, target), !.head = h],
                  ret |-> 1]

\* delete_by_name without the case of the only stop: the stop is unlinked
\* from itself and freed, and head keeps pointing at it
delete_by_name_no_sole_case(R, name) ==
    LET target == find_by_name(R, name)
    IN  IF target = NULL THEN [R |-> R, ret |-> 0]
        ELSE LET p == R.mem[target].prev
                 n == R.mem[target].next
                 m1 == [R.mem EXCEPT ![p].next = n]
                 m2 == [m1 EXCEPT ![n].prev = p]
                 h == IF target = R.head THEN n ELSE R.head
             IN  [R |-> [R EXCEPT !.mem = free(m2, target), !.head = h],
                  ret |-> 1]

\* int delete_by_name(const char *name): the state after the call and the
\* value returned
delete_by_name(R, name) ==
    LET target == find_by_name(R, name)
    IN  IF target = NULL THEN [R |-> R, ret |-> 0]
        ELSE IF R.mem[target].next = target
        THEN [R |-> [R EXCEPT !.mem = free(R.mem, target), !.head = NULL],
              ret |-> 1]
        ELSE LET p == R.mem[target].prev
                 n == R.mem[target].next
                 m1 == [R.mem EXCEPT ![p].next = n]
                 m2 == [m1 EXCEPT ![n].prev = p]
                 h == IF target = R.head THEN n ELSE R.head
             IN  [R |-> [R EXCEPT !.mem = free(m2, target), !.head = h],
                  ret |-> 1]

\* the loop of total_distance_time written while (cur->next != head): it
\* leaves out the weights of the last stop
RECURSIVE TotalLoopLeavesTail(_, _, _, _)
TotalLoopLeavesTail(R, cur, d, t) ==
    LET nx == R.mem[cur].next
    IN  IF nx # R.head
        THEN TotalLoopLeavesTail(R, nx, DAdd(d, R.mem[cur].dist_to_next),
                                 DAdd(t, R.mem[cur].time_to_next))
        ELSE [dist |-> d, time |-> t]

\* the do-while loop of total_distance_time, from cur with the sums so far
RECURSIVE TotalLoop(_, _, _, _)
TotalLoop(R, cur, d, t) ==
    LET d1 == DAdd(d, R.mem[cur].dist_to_next)
        t1 == DAdd(t, R.mem[cur].time_to_next)
        nx == R.mem[cur].next
    IN  IF nx # R.head THEN TotalLoop(R, nx, d1, t1)
        ELSE [dist |-> d1, time |-> t1]

\* void total_distance_time(double *tot_dist, double *tot_time)
total_distance_time(R) ==
    IF R.head = NULL THEN [dist |-> 0, time |-> 0]
    ELSE TotalLoop(R, R.head, 0, 0)

\* the loop of distance_between adding the weights of the stop it moves to
\* instead of those of the stop it leaves
RECURSIVE BetweenLoopArriving(_, _, _, _, _, _)
BetweenLoopArriving(R, start, target, cur, d, t) ==
    LET nx == R.mem[cur].next
        d1 == DAdd(d, R.mem[nx].dist_to_next)
        t1 == DAdd(t, R.mem[nx].time_to_next)
    IN  IF nx = target THEN [ret |-> 1, dist |-> d1, time |-> t1]
        ELSE IF nx # start THEN BetweenLoopArriving(R, start, target, nx, d1, t1)
        ELSE [ret |-> 0, dist |-> d1, time |-> t1]

\* the do-while loop of distance_between, from cur with the sums so far
RECURSIVE BetweenLoop(_, _, _, _, _, _)
BetweenLoop(R, start, target, cur, d, t) ==
    LET d1 == DAdd(d, R.mem[cur].dist_to_next)
        t1 == DAdd(t, R.mem[cur].time_to_next)
        nx == R.mem[cur].next
    IN  IF nx = target THEN [ret |-> 1, dist |-> d1, time |-> t1]
        ELSE IF nx # start THEN BetweenLoop(R, start, target, nx, d1, t1)
        ELSE [ret |-> 0, dist |-> d1, time |-> t1]

\* int distance_between(a_name, b_name, double *dist_out, double *time_out)
distance_between(R, a_name, b_name) ==
    IF R.head = NULL THEN [ret |-> 0, dist |-> 0, time |-> 0]
    ELSE LET start == find_by_name(R, a_name)
             target == find_by_name(R, b_name)
         IN  IF start = NULL \/ target = NULL
             THEN [ret |-> 0, dist |-> 0, time |-> 0]
             ELSE IF start = target THEN [ret |-> 1, dist |-> 0, time |-> 0]
             ELSE BetweenLoop(R, start, target, start, 0, 0)

\* the while loop of clear_route, from cur
RECURSIVE ClearLoop(_, _, _)
ClearLoop(m, h, cur) ==
    IF cur # h THEN ClearLoop(free(m, cur), h, m[cur].next) ELSE m

\* clear_route without free(head): the stop head pointed at stays allocated
clear_route_leaks_head(R) ==
    IF R.head = NULL THEN R
    ELSE [R EXCEPT
            !.mem = ClearLoop(R.mem, R.head, R.mem[R.head].next),
            !.head = NULL]

\* void clear_route()
clear_route(R) ==
    IF R.head = NULL THEN R
    ELSE [R EXCEPT
            !.mem = free(ClearLoop(R.mem, R.head, R.mem[R.head].next), R.head),
            !.head = NULL]

(***************************************************************************)
(* stdio: printf conversions, fgets, sscanf conversions, files             *)
(***************************************************************************)
RECURSIVE UnsignedText(_)
UnsignedText(n) ==
    IF n < 10 THEN <<DigitChars[n + 1]>>
    ELSE UnsignedText(n \div 10) \o <<DigitChars[(n % 10) + 1]>>

\* printf "%d"
FormatInt(n) == IF n < 0 THEN <<"-">> \o UnsignedText(0 - n) ELSE UnsignedText(n)

\* the decimal digits of n, zero-padded on the left to width w
RECURSIVE PaddedText(_, _)
PaddedText(n, w) ==
    IF w <= 0 THEN <<>>
    ELSE PaddedText(n \div 10, w - 1) \o <<DigitChars[(n % 10) + 1]>>

\* printf "%.6f": the value rounded to six decimals, ties to even
FormatF6(v) ==
    LET a == IF v < 0 THEN 0 - v ELSE v
        q == RoundHalfEven(a, Unit \div Pow10(6))
    IN  (IF v < 0 THEN <<"-">> ELSE <<>>)
        \o UnsignedText(q \div Pow10(6)) \o <<".">> \o PaddedText(q % Pow10(6), 6)

isspace(c) == c \in {" ", "\t", "\n", "\r"}

isdigit(c) == \E i \in 1..10 : DigitChars[i] = c

DigitValue(c) == (CHOOSE i \in 1..10 : DigitChars[i] = c) - 1

RECURSIVE SkipSpace(_, _)
SkipSpace(s, i) ==
    IF i <= Len(s) /\ isspace(s[i]) THEN SkipSpace(s, i + 1) ELSE i

\* the end of the run of digits of s that starts at i
RECURSIVE DigitsEnd(_, _)
DigitsEnd(s, i) ==
    IF i <= Len(s) /\ isdigit(s[i]) THEN DigitsEnd(s, i + 1) ELSE i

\* the number written by the digits s[i..j-1]
RECURSIVE DigitsValue(_, _, _)
DigitsValue(s, i, j) ==
    IF j <= i THEN 0 ELSE 10 * DigitsValue(s, i, j - 1) + DigitValue(s[j - 1])

\* sscanf "%d" at position i: white space, an optional sign, digits
ScanInt(s, i) ==
    LET j == SkipSpace(s, i)
        signed == j <= Len(s) /\ s[j] \in {"-", "+"}
        k == IF signed THEN j + 1 ELSE j
        e == DigitsEnd(s, k)
        v == DigitsValue(s, k, e)
    IN  [ok  |-> e > k,
         eof |-> j > Len(s),
         val |-> IF signed /\ s[j] = "-" THEN 0 - v ELSE v,
         pos |-> e]

\* the end of the run of characters other than ',' that starts at i, at most
\* w characters long
RECURSIVE ScanSetEnd(_, _, _)
ScanSetEnd(s, i, w) ==
    IF i <= Len(s) /\ w > 0 /\ s[i] # "," THEN ScanSetEnd(s, i + 1, w - 1) ELSE i

\* sscanf "%63[^,]" at position i: no white space is skipped, one character
\* at least is needed
ScanSet(s, i) ==
    LET e == ScanSetEnd(s, i, NAME_LEN - 1)
    IN  [ok |-> e > i, val |-> SubSeq(s, i, e - 1), pos |-> e]

\* the fraction written by the digits s[i..j-1], in ticks, rounded to a tick
FractionTicks(s, i, j) ==
    LET n == j - i
    IN  IF n <= 7 THEN DigitsValue(s, i, j) * Pow10(7 - n)
        ELSE RoundHalfEven(DigitsValue(s, i, j), Pow10(n - 7))

\* sscanf "%lf" at position i: white space, an optional sign, digits with an
\* optional point (decimal notation; the files of the model hold no exponent,
\* hexadecimal, inf or nan)
ScanDouble(s, i) ==
    LET j == SkipSpace(s, i)
        signed == j <= Len(s) /\ s[j] \in {"-", "+"}
        k == IF signed THEN j + 1 ELSE j
        e == DigitsEnd(s, k)
        point == e <= Len(s) /\ s[e] = "."
        f == IF point THEN DigitsEnd(s, e + 1) ELSE e
        ok == (e > k) \/ (point /\ f > e + 1)
        v == RoundDouble(DigitsValue(s, k, e) * Unit
                         + (IF point THEN FractionTicks(s, e + 1, f) ELSE 0))
    IN  [ok  |-> ok,
         val |-> IF signed /\ s[j] = "-" THEN 0 - v ELSE v,
         pos |-> f]

Literal(s, i, c) == i <= Len(s) /\ s[i] = c

\* sscanf(line, "%*d,%63[^,],%d,%lf,%lf", name, &passengers, &dist, &time),
\* one conversion after the other: n is the value returned, the fields are
\* the values assigned.  ScanRowTime is the last conversion, sscanf_row the
\* call.
NoRow == [n |-> 0, name |-> <<>>, passengers |-> 0, dist |-> 0, time |-> 0]

ScanRowTime(line, row, tm) ==
    IF ~tm.ok THEN row ELSE [row EXCEPT !.n = 4, !.time = tm.val]

ScanRowDist(line, row, ds) ==
    IF ~ds.ok THEN row
    ELSE IF ~Literal(line, ds.pos, ",") THEN [row EXCEPT !.n = 3, !.dist = ds.val]
    ELSE ScanRowTime(line, [row EXCEPT !.n = 3, !.dist = ds.val],
                     ScanDouble(line, ds.pos + 1))

ScanRowPassengers(line, row, ps) ==
    IF ~ps.ok THEN row
    ELSE IF ~Literal(line, ps.pos, ",")
    THEN [row EXCEPT !.n = 2, !.passengers = ps.val]
    ELSE ScanRowDist(line, [row EXCEPT !.n = 2, !.passengers = ps.val],
                     ScanDouble(line, ps.pos + 1))

ScanRowName(line, nm) ==
    IF ~nm.ok THEN NoRow
    ELSE IF ~Literal(line, nm.pos, ",") THEN [NoRow EXCEPT !.n = 1, !.name = nm.val]
    ELSE ScanRowPassengers(line, [NoRow EXCEPT !.n = 1, !.name = nm.val],
                           ScanInt(line, nm.pos + 1))

ScanRowId(line, id) ==
    IF ~id.ok THEN [NoRow EXCEPT !.n = IF id.eof THEN 0 - 1 ELSE 0]
    ELSE IF ~Literal(line, id.pos, ",") THEN NoRow
    ELSE ScanRowName(line, ScanSet(line, id.pos + 1))

sscanf_row(line) == ScanRowId(line, ScanInt(line, 1))

\* the end of the line fgets reads from position i: after the first '\n' or
\* after n - 1 characters
RECURSIVE LineEnd(_, _, _)
LineEnd(data, i, n) ==
    IF i > Len(data) \/ n <= 1 THEN i
    ELSE IF data[i] = "\n" THEN i + 1
    ELSE LineEnd(data, i + 1, n - 1)

\* fgets(line, n, f) with f at position pos of data: ok is FALSE at the
\* end of the file
fgets(data, pos, n) ==
    LET e == LineEnd(data, pos, n)
    IN  [ok |-> e > pos, line |-> SubSeq(data, pos, e - 1), pos |-> e]

\* the header line save_to_file writes
HeaderLine ==
    <<"i", "d", ",", "n", "a", "m", "e", ",", "p", "a", "s", "s", "e",
    "n", "g", "e", "r", "s", ",", "d", "i", "s", "t", "_", "t", "o", "_",
    "n", "e", "x", "t", ",", "t", "i", "m", "e", "_", "t", "o", "_", "n",
    "e", "x", "t", "\n">>

\* a file that does not exist
NoFile == [exists |-> FALSE, data |-> <<>>]

\* the path the user cannot write to and that holds no file
UnwritablePath == "nodir/route.csv"

\* fopen(filename, "w") succeeds
CanOpenForWrite(filename) == filename # UnwritablePath

\* fopen(filename, "r") succeeds
CanOpenForRead(fsys, filename) == fsys[filename].exists

\* a decimal constant of the source: m / 10^k
Dec(m, k) == m * Pow10(7 - k)

\* the line save_to_file writes for the stop at cur
RowText(R, cur) ==
    FormatInt(R.mem[cur].id) \o <<",">> \o R.mem[cur].name \o <<",">>
    \o FormatInt(R.mem[cur].passengers) \o <<",">>
    \o FormatF6(R.mem[cur].dist_to_next) \o <<",">>
    \o FormatF6(R.mem[cur].time_to_next) \o <<"\n">>

\* the loop of save_to_file written while (cur->next != head): the row of
\* the last stop is not written
RECURSIVE SaveLoopLeavesTail(_, _)
SaveLoopLeavesTail(R, cur) ==
    LET nx == R.mem[cur].next
    IN  IF nx # R.head THEN RowText(R, cur) \o SaveLoopLeavesTail(R, nx)
        ELSE <<>>

\* the do-while loop of save_to_file, from cur: the text written
RECURSIVE SaveLoop(_, _)
SaveLoop(R, cur) ==
    LET nx == R.mem[cur].next
    IN  RowText(R, cur) \o (IF nx # R.head THEN SaveLoop(R, nx) ELSE <<>>)

\* save_to_file opening the file before it looks at head: saving an empty
\* route leaves an empty file behind
save_to_file_opens_first(R, fsys, filename) ==
    IF ~CanOpenForWrite(filename) THEN [fs |-> fsys, ret |-> 0]
    ELSE IF R.head = NULL
    THEN [fs  |-> [fsys EXCEPT ![filename] = [exists |-> TRUE, data |-> <<>>]],
          ret |-> 0]
    ELSE [fs  |-> [fsys EXCEPT ![filename] =
                      [exists |-> TRUE,
                       data   |-> HeaderLine \o SaveLoop(R, R.head)]],
          ret |-> 1]

\* int save_to_file(const char *filename): the files after the call and the
\* value returned
save_to_file(R, fsys, filename) ==
    IF R.head = NULL THEN [fs |-> fsys, ret |-> 0]
    ELSE IF ~CanOpenForWrite(filename) THEN [fs |-> fsys, ret |-> 0]
    ELSE [fs  |-> [fsys EXCEPT ![filename] =
                      [exists |-> TRUE,
                       data   |-> HeaderLine \o SaveLoop(R, R.head)]],
          ret |-> 1]

\* insert_end(create_stop(name, passengers, dist, time))
InsertNewEnd(R, name, passengers, dist, time) ==
    insert_end(create_stop(R, name, passengers, dist, time),
               malloc(R.mem, R.next_id))

\* the while (fgets(...)) loop of load_from_file with the stream at pos:
\* LoadLine is the body of the loop for the line l that fgets read, and
\* LoadRow what it does with r, the outcome of sscanf
RECURSIVE LoadLoop(_, _, _)
\* the body of the loop leaving the loop at the first row sscanf rejects
LoadRowStopsAtBadRow(R, data, pos, r) ==
    IF r.n >= 4
    THEN LoadLoop(InsertNewEnd(R, r.name, r.passengers, r.dist, r.time), data, pos)
    ELSE R

LoadRow(R, data, pos, r) ==
    IF r.n >= 4
    THEN LoadLoop(InsertNewEnd(R, r.name, r.passengers, r.dist, r.time), data, pos)
    ELSE LoadLoop(R, data, pos)

LoadLine(R, data, l) ==
    IF ~l.ok THEN R ELSE LoadRow(R, data, l.pos, sscanf_row(l.line))

LoadLoop(R, data, pos) == LoadLine(R, data, fgets(data, pos, LINE_LEN))

\* load_from_file once the file is open and the route cleared: hdr is what
\* the first fgets read
LoadOpened(R1, data, hdr) ==
    IF ~hdr.ok THEN [R |-> R1, ret |-> 0]
    ELSE [R |-> LoadLoop(R1, data, hdr.pos), ret |-> 1]

\* load_from_file without its call of clear_route: the rows are appended to
\* the route that was there
load_from_file_appends(R, fsys, filename) ==
    IF ~CanOpenForRead(fsys, filename) THEN [R |-> R, ret |-> 0]
    ELSE LoadOpened(R, fsys[filename].data,
                    fgets(fsys[filename].data, 1, LINE_LEN))

\* int load_from_file(const char *filename): the state after the call and
\* the value returned
load_from_file(R, fsys, filename) ==
    IF ~CanOpenForRead(fsys, filename) THEN [R |-> R, ret |-> 0]
    ELSE LoadOpened(clear_route(R), fsys[filename].data,
                    fgets(fsys[filename].data, 1, LINE_LEN))

CentralStation ==
    <<"C", "e", "n", "t", "r", "a", "l", " ", "S", "t", "a",
    "t", "i", "o", "n">>

MarketRoad ==
    <<"M", "a", "r", "k", "e", "t", " ", "R", "o", "a", "d">>

Library == <<"L", "i", "b", "r", "a", "r", "y">>

College == <<"C", "o", "l", "l", "e", "g", "e">>

Park == <<"P", "a", "r", "k">>

\* populate_sample without its call of clear_route: the counter starts again
\* at 1 while the stops of before are still in the route
populate_sample_keeps_route(R) ==
    LET R0 == [R EXCEPT !.next_id = 1]
        R1 == InsertNewEnd(R0, CentralStation, 12, Dec(25, 1), Dec(60, 1))
        R2 == InsertNewEnd(R1, MarketRoad, 5, Dec(12, 1), Dec(30, 1))
        R3 == InsertNewEnd(R2, Library, 3, Dec(9, 1), Dec(20, 1))
        R4 == InsertNewEnd(R3, College, 8, Dec(18, 1), Dec(40, 1))
    IN  InsertNewEnd(R4, Park, 2, Dec(20, 1), Dec(50, 1))

\* void populate_sample()
populate_sample(R) ==
    LET R0 == [clear_route(R) EXCEPT !.next_id = 1]
        R1 == InsertNewEnd(R0, CentralStation, 12, Dec(25, 1), Dec(60, 1))
        R2 == InsertNewEnd(R1, MarketRoad, 5, Dec(12, 1), Dec(30, 1))
        R3 == InsertNewEnd(R2, Library, 3, Dec(9, 1), Dec(20, 1))
        R4 == InsertNewEnd(R3, College, 8, Dec(18, 1), Dec(40, 1))
    IN  InsertNewEnd(R4, Park, 2, Dec(20, 1), Dec(50, 1))

(***************************************************************************)
(* Views of the state                                                      *)
(***************************************************************************)
\* the globals and the heap as the C functions take them
Cur == [head |-> head, mem |-> mem, next_id |-> next_id]

\* the stops met from cur following next, n of them
RECURSIVE Follow(_, _, _)
Follow(m, cur, n) ==
    IF n = 0 THEN <<>> ELSE <<cur>> \o Follow(m, m[cur].next, n - 1)

\* the stops met from cur following prev, n of them
RECURSIVE FollowBack(_, _, _)
FollowBack(m, cur, n) ==
    IF n = 0 THEN <<>> ELSE <<cur>> \o FollowBack(m, m[cur].prev, n - 1)

\* the route in traversal order: the allocated stops, from head
Order(R) ==
    IF R.head = NULL THEN <<>>
    ELSE Follow(R.mem, R.head, Cardinality(DOMAIN R.mem))

Range(f) == {f[i] : i \in DOMAIN f}

\* what a stop holds apart from its links
Fields(st) ==
    [id |-> st.id, name |-> st.name, passengers |-> st.passengers,
     dist_to_next |-> st.dist_to_next, time_to_next |-> st.time_to_next]

\* the route as the sequence of its stops' fields, in traversal order
Stops(R) == [i \in DOMAIN Order(R) |-> Fields(R.mem[Order(R)[i]])]

\* what save and load are meant to keep of a stop
Tuple(st) ==
    [name |-> st.name, passengers |-> st.passengers,
     dist_to_next |-> st.dist_to_next, time_to_next |-> st.time_to_next]

Tuples(R) == [i \in DOMAIN Order(R) |-> Tuple(R.mem[Order(R)[i]])]

(***************************************************************************)
(* The menu: one action per option.  op records the last option taken,     *)
(* what the user typed and what the call returned; issued is the set of    *)
(* ids create_stop has handed out since the program started.               *)
(***************************************************************************)
NoOp ==
    [name |-> "start", a |-> <<>>, b |-> <<>>, pos |-> 0, node |-> NULL,
     ret |-> 0, dist |-> 0, time |-> 0, out |-> "", file |-> ""]

Running == op.name # "exit"

\* the model's bounds on malloc and on next_id
CanCreate == Cardinality(DOMAIN mem) < MaxStops /\ next_id <= MaxId

Become(R) == head' = R.head /\ mem' = R.mem /\ next_id' = R.next_id

\* option 1: view_route()
MenuView ==
    /\ Running
    /\ op' = [NoOp EXCEPT !.name = "view_route", !.ret = Len(Order(Cur))]
    /\ UNCHANGED <<head, mem, next_id, fs, issued>>

\* option 2: find_by_name(buf)
MenuSearch(name) ==
    /\ Running
    /\ op' = [NoOp EXCEPT !.name = "find_by_name", !.a = name,
                          !.node = find_by_name(Cur, name)]
    /\ UNCHANGED <<head, mem, next_id, fs, issued>>

\* option 3: insert_end(create_stop(name, p, d, t))
MenuInsertEnd(name, p, d, t) ==
    /\ Running
    /\ CanCreate
    /\ Become(InsertNewEnd(Cur, name, p, d, t))
    /\ op' = [NoOp EXCEPT !.name = "insert_end", !.a = name,
                          !.node = malloc(mem, next_id)]
    /\ issued' = issued \cup {next_id}
    /\ UNCHANGED fs

\* option 4: create_stop, find_by_name(after), insert_end or insert_after
MenuInsertAfter(name, after, p, d, t) ==
    LET R1 == create_stop(Cur, name, p, d, t)
        s == malloc(mem, next_id)
        existing == find_by_name(R1, after)
    IN  /\ Running
        /\ CanCreate
        /\ Become(IF existing = NULL THEN insert_end(R1, s)
                  ELSE insert_after(R1, existing, s))
        /\ op' = [NoOp EXCEPT !.name = "insert_after", !.a = name, !.b = after,
                              !.node = s, !.ret = existing]
        /\ issued' = issued \cup {next_id}
        /\ UNCHANGED fs

\* option 5: insert_at_position(create_stop(name, p, d, t), pos)
MenuInsertAt(name, pos, p, d, t) ==
    LET R1 == create_stop(Cur, name, p, d, t)
        s == malloc(mem, next_id)
    IN  /\ Running
        /\ CanCreate
        /\ Become(insert_at_position(R1, s, pos))
        /\ op' = [NoOp EXCEPT !.name = "insert_at_position", !.a = name,
                              !.pos = pos, !.node = s]
        /\ issued' = issued \cup {next_id}
        /\ UNCHANGED fs

\* option 6: delete_by_name(buf)
MenuDelete(name) ==
    LET r == delete_by_name(Cur, name)
    IN  /\ Running
        /\ Become(r.R)
        /\ op' = [NoOp EXCEPT !.name = "delete_by_name", !.a = name,
                              !.node = find_by_name(Cur, name), !.ret = r.ret]
        /\ UNCHANGED <<fs, issued>>

\* option 7: find_by_name(buf), then the passengers of the stop found
MenuPassengers(name) ==
    LET s == find_by_name(Cur, name)
    IN  /\ Running
        /\ op' = [NoOp EXCEPT !.name = "passengers", !.a = name, !.node = s,
                              !.ret = IF s = NULL THEN 0 ELSE mem[s].passengers]
        /\ UNCHANGED <<head, mem, next_id, fs, issued>>

\* option 8: total_distance_time(&td, &tt)
MenuTotal ==
    LET r == total_distance_time(Cur)
    IN  /\ Running
        /\ op' = [NoOp EXCEPT !.name = "total_distance_time",
                              !.dist = r.dist, !.time = r.time]
        /\ UNCHANGED <<head, mem, next_id, fs, issued>>

\* option 9: strcmp(a, b), else distance_between(a, b, &d, &t)
MenuDistance(a, b) ==
    LET r == distance_between(Cur, a, b)
    IN  /\ Running
        /\ op' = IF strcmp(a, b) = 0
                 THEN [NoOp EXCEPT !.name = "distance_between", !.a = a, !.b = b,
                                   !.out = "same"]
                 ELSE [NoOp EXCEPT !.name = "distance_between", !.a = a, !.b = b,
                                   !.ret = r.ret,
                                   !.dist = IF r.ret # 0 THEN r.dist ELSE 0,
                                   !.time = IF r.ret # 0 THEN r.time ELSE 0,
                                   !.out = IF r.ret # 0 THEN "found"
                                           ELSE "not found"]
        /\ UNCHANGED <<head, mem, next_id, fs, issued>>

\* option 10: save_to_file(buf)
MenuSave(filename) ==
    LET r == save_to_file(Cur, fs, filename)
    IN  /\ Running
        /\ fs' = r.fs
        /\ op' = [NoOp EXCEPT !.name = "save_to_file", !.file = filename,
                              !.ret = r.ret]
        /\ UNCHANGED <<head, mem, next_id, issued>>

\* option 11: load_from_file(buf); r is what the call gives
Loaded(filename, r) ==
    /\ Running
    /\ r.R.next_id <= MaxId + 1
    /\ Become(r.R)
    /\ op' = [NoOp EXCEPT !.name = "load_from_file", !.file = filename,
                          !.ret = r.ret]
    /\ issued' = issued \cup (next_id .. (r.R.next_id - 1))
    /\ UNCHANGED fs

MenuLoad(filename) == Loaded(filename, load_from_file(Cur, fs, filename))

\* option 12: populate_sample()
MenuPopulate ==
    LET R1 == populate_sample(Cur)
    IN  /\ Running
        /\ Become(R1)
        /\ op' = [NoOp EXCEPT !.name = "populate_sample"]
        /\ issued' = issued \cup (1 .. (R1.next_id - 1))
        /\ UNCHANGED fs

\* option 0: clear_route(), return
MenuExit ==
    /\ Running
    /\ Become(clear_route(Cur))
    /\ op' = [NoOp EXCEPT !.name = "exit"]
    /\ UNCHANGED <<fs, issued>>

(***************************************************************************)
(* Spec: the menu on a small route.  The user types stops from StopInputs, *)
(* names from LookupNames, positions from Positions; the disk holds the    *)
(* files of DiskFiles when the program starts.                             *)
(***************************************************************************)
StopInputs ==
    { [name |-> <<"A">>, passengers |-> 1, dist |-> Dec(1, 0), time |-> Dec(2, 0)],
      [name |-> <<"B">>, passengers |-> 0, dist |-> Dec(3, 0), time |-> Dec(4, 0)] }

LookupNames ==
    { <<"a">>, <<"b">>, <<"z">>, <<"p", "a", "r", "k">>,
      <<"L", "I", "B", "R", "A", "R", "Y">>,
      <<"c", "o", "l", "l", "e", "g", "e">> }

MetricNames == { <<"a">>, <<"b">>, <<"z">> }

Positions == (0 - 1) .. (MaxStops + 1)

\* a route file whose second data row is malformed
SampleFile ==
    HeaderLine
    \o <<"1", ",", "A", ",", "1", ",", "1", ".", "0", "0", "0",
       "0", "0", "0", ",", "2", ".", "0", "0", "0", "0", "0", "0",
       "\n">>
    \o <<"2", ",", "B", "\n">>
    \o <<"7", ",", "B", ",", "0", ",", "3", ".", "0", "0", "0",
       "0", "0", "0", ",", "4", ".", "0", "0", "0", "0", "0", "0",
       "\n">>

DiskFiles ==
    [f \in {"route.csv", "sample.csv", "empty.csv", UnwritablePath} |->
        CASE f = "sample.csv" -> [exists |-> TRUE, data |-> SampleFile]
          [] f = "empty.csv" -> [exists |-> TRUE, data |-> <<>>]
          [] OTHER -> NoFile]

Init ==
    /\ head = NULL
    /\ mem = EmptyHeap
    /\ next_id = 1
    /\ fs = DiskFiles
    /\ op = NoOp
    /\ issued = {}

Insertions ==
    \E i \in StopInputs :
        \/ MenuInsertEnd(i.name, i.passengers, i.dist, i.time)
        \/ \E after \in MetricNames :
               MenuInsertAfter(i.name, after, i.passengers, i.dist, i.time)
        \/ \E pos \in Positions :
               MenuInsertAt(i.name, pos, i.passengers, i.dist, i.time)

Queries ==
    \/ MenuView
    \/ \E n \in MetricNames : MenuSearch(n)
    \/ MenuPassengers(<<"a">>)
    \/ MenuTotal
    \/ \E a, b \in MetricNames : MenuDistance(a, b)

Next ==
    \/ Insertions
    \/ \E n \in LookupNames : MenuDelete(n)
    \/ Queries
    \/ MenuSave(UnwritablePath)
    \/ \E f \in DOMAIN fs : MenuLoad(f)
    \/ MenuPopulate
    \/ MenuExit

Spec == Init /\ [][Next]_vars

(***************************************************************************)
(* C1  Cyclic integrity.  In every state the menu reaches: head is NULL    *)
(* exactly when no stop is allocated; otherwise head is an allocated stop, *)
(* every link of every stop points to an allocated stop, s.next.prev = s   *)
(* and s.prev.next = s for every stop s, and the N stops met from head     *)
(* following next are all the N stops, each once, the last one linking     *)
(* back to head: one cycle, no sub-cycle, no dangling link.                *)
(***************************************************************************)
CyclicIntegrity ==
    LET N == Cardinality(DOMAIN mem)
    IN  /\ (head = NULL) <=> (N = 0)
        /\ head # NULL =>
            /\ head \in DOMAIN mem
            /\ \A s \in DOMAIN mem :
                   mem[s].next \in DOMAIN mem /\ mem[s].prev \in DOMAIN mem
            /\ \A s \in DOMAIN mem :
                   mem[mem[s].next].prev = s /\ mem[mem[s].prev].next = s
            /\ Range(Follow(mem, head, N)) = DOMAIN mem
            /\ \A k \in 2..N : Follow(mem, head, N)[k] # head
            /\ mem[Follow(mem, head, N)[N]].next = head

\* two deletions from the sample route have left three stops
CyclicIntegrityWitness ==
    /\ op.name = "delete_by_name"
    /\ op.ret = 1
    /\ Cardinality(DOMAIN mem) = 3
    /\ head # NULL
    /\ mem[head].name = CentralStation

(***************************************************************************)
(* SpecMetrics: routes built at the end and at the front from stops whose  *)
(* weights make the sums of the metrics round, and the two metric options  *)
(* of the menu on every pair of names.                                     *)
(***************************************************************************)
MetricStops ==
    { [name |-> <<"A">>, passengers |-> 1, dist |-> Dec(1, 0), time |-> Dec(2, 0)],
      [name |-> <<"B">>, passengers |-> 2, dist |-> Dec(3, 0), time |-> Dec(4, 0)],
      [name |-> <<"C">>, passengers |-> 3, dist |-> Dec(5, 0), time |-> Dec(6, 0)],
      [name |-> <<"a">>, passengers |-> 4,
       dist |-> Dec(5, 0) + Dec(5, SigDigits - 1),
       time |-> Dec(9, 0) + Dec(5, SigDigits - 1)] }

PairNames == { <<"a">>, <<"B">>, <<"c">>, <<"z">> }

NextMetrics ==
    \/ \E i \in MetricStops : MenuInsertEnd(i.name, i.passengers, i.dist, i.time)
    \/ \E i \in MetricStops : MenuInsertAt(i.name, 1, i.passengers, i.dist, i.time)
    \/ MenuTotal
    \/ \E a, b \in PairNames : MenuDistance(a, b)

SpecMetrics == Init /\ [][NextMetrics]_vars

\* the position of stop s in the traversal order
IndexOf(R, s) == CHOOSE i \in DOMAIN Order(R) : Order(R)[i] = s

\* the stops met walking forward from stop s inclusive to stop e exclusive:
\* none when s = e
Walk(R, s, e) ==
    LET N == Len(Order(R))
        n == (IndexOf(R, e) - IndexOf(R, s) + N) % N
    IN  [k \in 1..n |-> Order(R)[((IndexOf(R, s) + k - 2) % N) + 1]]

DistOf(R, w) == [k \in DOMAIN w |-> R.mem[w[k]].dist_to_next]

TimeOf(R, w) == [k \in DOMAIN w |-> R.mem[w[k]].time_to_next]

\* 0.0 + x1 + x2 + ... in doubles, added from the left
RECURSIVE SumLeft(_)
SumLeft(xs) ==
    IF Len(xs) = 0 THEN 0
    ELSE DAdd(SumLeft(SubSeq(xs, 1, Len(xs) - 1)), xs[Len(xs)])

\* x1 + x2 + ... in the reals
RECURSIVE SumReal(_)
SumReal(xs) ==
    IF Len(xs) = 0 THEN 0 ELSE SumReal(SubSeq(xs, 1, Len(xs) - 1)) + xs[Len(xs)]

\* no addition of SumLeft(xs) rounds
NoRounding(xs) == \A k \in 1..Len(xs) : IsDouble(SumReal(SubSeq(xs, 1, k)))

\* the pairs of names the claims on distance_between range over
ResolvedPairs ==
    { p \in PairNames \X PairNames :
        find_by_name(Cur, p[1]) # NULL /\ find_by_name(Cur, p[2]) # NULL }

(***************************************************************************)
(* C2 as stated: in a route of two stops or more, for two names that       *)
(* find_by_name resolves to distinct stops, distance_between finds both    *)
(* directions, and their distances and their times add up to exactly the   *)
(* totals of total_distance_time.                                          *)
(***************************************************************************)
DirectionsAddUpExactly ==
    \A p \in ResolvedPairs :
        (Cardinality(DOMAIN mem) >= 2
         /\ find_by_name(Cur, p[1]) # find_by_name(Cur, p[2])) =>
            /\ distance_between(Cur, p[1], p[2]).ret = 1
            /\ distance_between(Cur, p[2], p[1]).ret = 1
            /\ DAdd(distance_between(Cur, p[1], p[2]).dist,
                    distance_between(Cur, p[2], p[1]).dist)
               = total_distance_time(Cur).dist
            /\ DAdd(distance_between(Cur, p[1], p[2]).time,
                    distance_between(Cur, p[2], p[1]).time)
               = total_distance_time(Cur).time

(***************************************************************************)
(* C2 amended: both directions are found, and their distances (times) add  *)
(* up to exactly the total distance (time) whenever none of the additions  *)
(* made by the two walks, by the walk of total_distance_time and by the    *)
(* final addition rounds.                                                  *)
(***************************************************************************)
DirectionsAddUpWithoutRounding ==
    \A p \in ResolvedPairs :
        LET A == find_by_name(Cur, p[1])
            B == find_by_name(Cur, p[2])
            all == Order(Cur)
        IN  (Cardinality(DOMAIN mem) >= 2 /\ A # B) =>
            /\ distance_between(Cur, p[1], p[2]).ret = 1
            /\ distance_between(Cur, p[2], p[1]).ret = 1
            /\ (/\ NoRounding(DistOf(Cur, Walk(Cur, A, B)))
                /\ NoRounding(DistOf(Cur, Walk(Cur, B, A)))
                /\ NoRounding(DistOf(Cur, all))) =>
                   DAdd(distance_between(Cur, p[1], p[2]).dist,
                        distance_between(Cur, p[2], p[1]).dist)
                   = total_distance_time(Cur).dist
            /\ (/\ NoRounding(TimeOf(Cur, Walk(Cur, A, B)))
                /\ NoRounding(TimeOf(Cur, Walk(Cur, B, A)))
                /\ NoRounding(TimeOf(Cur, all))) =>
                   DAdd(distance_between(Cur, p[1], p[2]).time,
                        distance_between(Cur, p[2], p[1]).time)
                   = total_distance_time(Cur).time

\* option 9 has found the way from B to A in the route A, B, C, whose sums
\* do not round
DirectionsAddUpWitness ==
    /\ op.name = "distance_between"
    /\ op.a = <<"B">>
    /\ op.b = <<"a">>
    /\ op.ret = 1
    /\ Len(Order(Cur)) = 3
    /\ find_by_name(Cur, <<"a">>) # find_by_name(Cur, <<"B">>)
    /\ NoRounding(DistOf(Cur, Order(Cur)))
    /\ NoRounding(TimeOf(Cur, Order(Cur)))
    /\ op.dist = Dec(8, 0)

\* the route is [A(1,2), B(3,4), C(5,6)]
ScenarioABC ==
    /\ Len(Order(Cur)) = 3
    /\ [k \in 1..3 |-> <<Stops(Cur)[k].name, Stops(Cur)[k].dist_to_next,
                         Stops(Cur)[k].time_to_next>>]
       = << <<(<<"A">>), Dec(1, 0), Dec(2, 0)>>,
            <<(<<"B">>), Dec(3, 0), Dec(4, 0)>>,
            <<(<<"C">>), Dec(5, 0), Dec(6, 0)>> >>

(***************************************************************************)
(* C8  When both names resolve to stops A and B, distance_between reports  *)
(* found and returns the sums, added from the left, of dist_to_next and of *)
(* time_to_next over the stops met walking forward from A inclusive to B   *)
(* exclusive: (0,0) when A and B are the same stop; option 9 of the menu   *)
(* prints these sums; in the route [A(1,2), B(3,4), C(5,6)] the way from A *)
(* to C is (4,6) and the way from C to A is (5,6).                         *)
(***************************************************************************)
DistanceBetweenIsForwardSum ==
    /\ \A p \in ResolvedPairs :
        LET A == find_by_name(Cur, p[1])
            B == find_by_name(Cur, p[2])
        IN  /\ distance_between(Cur, p[1], p[2]).ret = 1
            /\ distance_between(Cur, p[1], p[2]).dist
               = SumLeft(DistOf(Cur, Walk(Cur, A, B)))
            /\ distance_between(Cur, p[1], p[2]).time
               = SumLeft(TimeOf(Cur, Walk(Cur, A, B)))
            /\ A = B => /\ distance_between(Cur, p[1], p[2]).dist = 0
                        /\ distance_between(Cur, p[1], p[2]).time = 0
    /\ (op.name = "distance_between" /\ op.out = "found") =>
        /\ op.dist = SumLeft(DistOf(Cur, Walk(Cur, find_by_name(Cur, op.a),
                                              find_by_name(Cur, op.b))))
        /\ op.time = SumLeft(TimeOf(Cur, Walk(Cur, find_by_name(Cur, op.a),
                                              find_by_name(Cur, op.b))))
    /\ ScenarioABC =>
        /\ distance_between(Cur, <<"A">>, <<"C">>)
           = [ret |-> 1, dist |-> Dec(4, 0), time |-> Dec(6, 0)]
        /\ distance_between(Cur, <<"C">>, <<"A">>)
           = [ret |-> 1, dist |-> Dec(5, 0), time |-> Dec(6, 0)]

\* option 9 has printed the way from C to A in the route [A, B, C], and the
\* way from A to C is another
DistanceBetweenWitness ==
    /\ ScenarioABC
    /\ op.name = "distance_between"
    /\ op.a = <<"c">>
    /\ op.b = <<"a">>
    /\ op.out = "found"
    /\ op.dist = Dec(5, 0)
    /\ op.time = Dec(6, 0)
    /\ distance_between(Cur, <<"a">>, <<"c">>).dist # op.dist

(***************************************************************************)
(* The state after a step, as the C functions take it.                     *)
(***************************************************************************)
After == [head |-> head', mem |-> mem', next_id |-> next_id']

\* no stop of the route has this name, letter case set aside
NoMatch(R, name) == \A s \in DOMAIN R.mem : strcasecmp(R.mem[s].name, name) # 0

(***************************************************************************)
(* C6  delete_by_name with a name that matches no stop, letter case set    *)
(* aside, on an empty or a non-empty route, returns 0 and leaves head, the *)
(* order of the stops, every field of every stop, and next_id as they      *)
(* were.                                                                   *)
(***************************************************************************)
DeleteMissChangesNothing ==
    [][ (op'.name = "delete_by_name" /\ NoMatch(Cur, op'.a)) =>
            /\ op'.ret = 0
            /\ head' = head
            /\ next_id' = next_id
            /\ Order(After) = Order(Cur)
            /\ Stops(After) = Stops(Cur)
            /\ mem' = mem ]_vars

\* a delete that missed on a route of two stops
DeleteMissWitness ==
    /\ op.name = "delete_by_name"
    /\ op.ret = 0
    /\ op.a = <<"z">>
    /\ NoMatch(Cur, op.a)
    /\ Len(Order(Cur)) = 2

(***************************************************************************)
(* C7  When the route holds exactly one stop, delete_by_name on its name   *)
(* returns 1 and leaves the route empty, head NULL; in that state          *)
(* find_by_name returns NULL for every name and total_distance_time        *)
(* returns (0,0).                                                          *)
(***************************************************************************)
DeleteSoleStopEmptiesRoute ==
    [][ (/\ op'.name = "delete_by_name"
         /\ Cardinality(DOMAIN mem) = 1
         /\ ~NoMatch(Cur, op'.a)) =>
            /\ op'.ret = 1
            /\ head' = NULL
            /\ mem' = EmptyHeap
            /\ \A n \in LookupNames \cup {op'.a, <<>>} :
                   find_by_name(After, n) = NULL
            /\ total_distance_time(After) = [dist |-> 0, time |-> 0] ]_vars

\* the only stop has been deleted
DeleteSoleStopWitness ==
    /\ op.name = "delete_by_name"
    /\ op.ret = 1
    /\ op.node # NULL
    /\ head = NULL
    /\ mem = EmptyHeap
    /\ find_by_name(Cur, op.a) = NULL
    /\ total_distance_time(Cur) = [dist |-> 0, time |-> 0]

\* the names of the stops of a route, in traversal order
Names(R) == [i \in DOMAIN Order(R) |-> R.mem[Order(R)[i]].name]

(***************************************************************************)
(* C9  insert_at_position(newstop, pos) with pos <= 1, zero and negative   *)
(* positions included, or on an empty route, makes newstop the head: the   *)
(* traversal order afterwards is newstop followed by the previous stops in *)
(* their previous order, their fields untouched, and on an empty route     *)
(* newstop is a cycle of one stop linked to itself.                        *)
(***************************************************************************)
InsertAtFrontMakesHead ==
    [][ (op'.name = "insert_at_position" /\ (op'.pos <= 1 \/ head = NULL)) =>
            /\ head' = op'.node
            /\ mem'[op'.node].name = op'.a
            /\ mem'[op'.node].id = next_id
            /\ Order(After) = <<op'.node>> \o Order(Cur)
            /\ Stops(After) = <<Fields(mem'[op'.node])>> \o Stops(Cur)
            /\ head = NULL =>
                   /\ DOMAIN mem' = {op'.node}
                   /\ mem'[op'.node].next = op'.node
                   /\ mem'[op'.node].prev = op'.node ]_vars

\* a stop B was put at a position below 1 in front of the route [A, A]
InsertAtFrontWitness ==
    /\ op.name = "insert_at_position"
    /\ op.pos < 1
    /\ head = op.node
    /\ Names(Cur) = << <<"B">>, <<"A">>, <<"A">> >>
    /\ Stops(Cur)[1].id > Stops(Cur)[3].id

(***************************************************************************)
(* C5 as stated.  After option 3 has inserted a stop under a name,         *)
(* find_by_name of that name returns a stop whose id is the one just       *)
(* assigned and is none of the ids assigned earlier since the program      *)
(* started.                                                                *)
(***************************************************************************)
InsertedStopFoundWithFreshId ==
    [][ op'.name = "insert_end" =>
            /\ find_by_name(After, op'.a) # NULL
            /\ mem'[find_by_name(After, op'.a)].id = next_id
            /\ mem'[find_by_name(After, op'.a)].id \notin issued ]_vars

(***************************************************************************)
(* C5 amended.  After option 3 has inserted a stop under a name,           *)
(* find_by_name of that name returns a stop whose name matches, letter     *)
(* case set aside: the first such stop from head.  When a stop of the      *)
(* route already matched, it is that older stop, with its older id.  When  *)
(* none did, it is the new stop; its id is the value next_id had, next_id  *)
(* has grown by one, and the id is above the id of every other stop of the *)
(* route.  An id assigned before the last populate_sample can come again.  *)
(***************************************************************************)
InsertedStopFoundFirstMatch ==
    [][ op'.name = "insert_end" =>
            /\ find_by_name(After, op'.a) # NULL
            /\ strcasecmp(mem'[find_by_name(After, op'.a)].name, op'.a) = 0
            /\ mem'[op'.node].id = next_id
            /\ next_id' = next_id + 1
            /\ \A s \in DOMAIN mem : mem[s].id < next_id
            /\ ~NoMatch(Cur, op'.a) =>
                   /\ find_by_name(After, op'.a) = find_by_name(Cur, op'.a)
                   /\ find_by_name(After, op'.a) # op'.node
                   /\ mem'[find_by_name(After, op'.a)].id < next_id
            /\ NoMatch(Cur, op'.a) =>
                   /\ find_by_name(After, op'.a) = op'.node
                   /\ \A s \in DOMAIN mem' \ {op'.node} :
                          mem'[s].id < mem'[op'.node].id ]_vars

\* a stop was inserted at the end of what is left of the sample route and is
\* the one find_by_name returns; its id is the one after the sample's
InsertedStopFoundWitness ==
    /\ op.name = "insert_end"
    /\ find_by_name(Cur, op.a) = op.node
    /\ Len(Order(Cur)) = 3
    /\ mem[head].name = CentralStation
    /\ mem[op.node].id = 6
    /\ next_id = 7

\* a stop that was in the route before the step is in it after the step; ids
\* tell the old stops from the new, the heap handing freed addresses out again
OldStopRemains == \E s \in DOMAIN mem' : mem'[s].id < next_id

FileStops ==
    { [name |-> <<"A", "b">>, passengers |-> 12,
       dist |-> Dec(5, 1), time |-> Dec(15, 1)],
      [name |-> <<"D">>, passengers |-> 0,
       dist |-> Dec(12, 0), time |-> Dec(25, 2)],
      [name |-> <<"A", ",", "B">>, passengers |-> 2,
       dist |-> Dec(3, 0), time |-> Dec(4, 0)],
      [name |-> <<>>, passengers |-> 1,
       dist |-> Dec(1, 0), time |-> Dec(2, 0)],
      [name |-> <<"C">>, passengers |-> 3,
       dist |-> Dec(4, 7), time |-> Dec(2, 0)] }

\* a route file with rows that do not parse: a row whose id is no number, a
\* row without its time, an empty line; and rows that do: a row with a
\* field too many, a row with blanks before its numbers
BrokenFile ==
    HeaderLine
    \o <<"1", ",", "A", ",", "1", ",", "1", ".", "0", "0", "0",
       "0", "0", "0", ",", "2", ".", "0", "0", "0", "0", "0", "0",
       "\n">>
    \o <<"x", ",", "B", ",", "1", ",", "1", ",", "1", "\n">>
    \o <<"3", ",", "D", ",", "1", ",", "1", "\n">>
    \o <<"4", ",", "E", ",", "2", ",", "3", ",", "4", ",", "e", "x", "t",
       "r", "a", "\n">>
    \o <<"\n">>
    \o <<" ", "7", ",", "H", ",", " ", "1", ",", " ", "2", ",", " ", "3",
       "\n">>

FileDisk ==
    [f \in {"route.csv", "broken.csv"} |->
        IF f = "broken.csv" THEN [exists |-> TRUE, data |-> BrokenFile]
        ELSE NoFile]

InitFile ==
    /\ head = NULL
    /\ mem = EmptyHeap
    /\ next_id = 1
    /\ fs = FileDisk
    /\ op = NoOp
    /\ issued = {}

NextFile ==
    \/ \E i \in FileStops : MenuInsertEnd(i.name, i.passengers, i.dist, i.time)
    \/ \E f \in {"route.csv", UnwritablePath} : MenuSave(f)
    \/ \E f \in DOMAIN fs : MenuLoad(f)

SpecFile == InitFile /\ [][NextFile]_vars

\* the step loads the file that the step before it saved the route to
LoadsWhatWasSaved ==
    /\ op.name = "save_to_file"
    /\ op.ret = 1
    /\ op'.name = "load_from_file"
    /\ op'.file = op.file

(***************************************************************************)
(* C3 as stated.  For every non-empty route the insertions can build,      *)
(* whatever the names, save_to_file followed by load_from_file of the same *)
(* file yields a route whose sequence of (name, passengers, dist_to_next,  *)
(* time_to_next) from head equals the saved route's: same length, same     *)
(* order.                                                                  *)
(***************************************************************************)
RoundTripKeepsTuples ==
    [][ LoadsWhatWasSaved => Tuples(After) = Tuples(Cur) ]_vars

\* a weight is a whole number of millionths
SixDecimals(w) == w % Pow10(1) = 0

\* the rows of the stops of R can be read back: no name is empty or holds a
\* comma, the weights have six decimals at most, the line fits the buffer
Portable(R) ==
    \A s \in DOMAIN R.mem :
        /\ R.mem[s].name # <<>>
        /\ \A i \in DOMAIN R.mem[s].name : R.mem[s].name[i] # ","
        /\ SixDecimals(R.mem[s].dist_to_next)
        /\ SixDecimals(R.mem[s].time_to_next)
        /\ Len(RowText(R, s)) < LINE_LEN

(***************************************************************************)
(* C3 amended.  For every non-empty route whose names are not empty and    *)
(* hold no comma, whose weights have at most six decimals and whose rows   *)
(* fit a line of the reader, save_to_file followed by load_from_file of    *)
(* the same file returns 1 and yields a route whose sequence of (name,     *)
(* passengers, dist_to_next, time_to_next) from head equals the saved      *)
(* route's: same length, same order; the ids are the next ones.            *)
(***************************************************************************)
RoundTripKeepsPortableTuples ==
    [][ (LoadsWhatWasSaved /\ Portable(Cur)) =>
            /\ op'.ret = 1
            /\ Tuples(After) = Tuples(Cur)
            /\ \A i \in DOMAIN Order(After) :
                   Stops(After)[i].id = next_id + i - 1 ]_vars

\* route.csv was loaded and the route is [Ab, D, Ab] with the ids 4 to 6: the
\* route of the ids 1 to 3 that was saved, every row of the file read back
RoundTripWitness ==
    /\ op.name = "load_from_file"
    /\ op.file = "route.csv"
    /\ op.ret = 1
    /\ Portable(Cur)
    /\ Names(Cur) = << <<"A", "b">>, <<"D">>, <<"A", "b">> >>
    /\ Stops(Cur)[1].id = 4
    /\ Stops(Cur)[2].dist_to_next = Dec(12, 0)
    /\ Stops(Cur)[2].time_to_next = Dec(25, 2)
    /\ fs["route.csv"].data = HeaderLine \o
           SaveLoop([Cur EXCEPT !.mem = [a \in DOMAIN mem |->
                        [mem[a] EXCEPT !.id = mem[a].id - 3]]], head)

\* the lines of a file from position pos, as fgets cuts them
RECURSIVE FileLines(_, _)
FileLinesFrom(data, l) ==
    IF ~l.ok THEN <<>> ELSE <<l.line>> \o FileLines(data, l.pos)

FileLines(data, pos) == FileLinesFrom(data, fgets(data, pos, LINE_LEN))

\* the lines after the header line
DataRows(data) == Tail(FileLines(data, 1))

\* sscanf assigns name, passengers, distance and time from the line
WellFormed(line) == sscanf_row(line).n >= 4

\* the stop that a well-formed line makes, with the id given
StopOfRow(line, id) ==
    [id |-> id, name |-> sscanf_row(line).name,
     passengers |-> sscanf_row(line).passengers,
     dist_to_next |-> sscanf_row(line).dist,
     time_to_next |-> sscanf_row(line).time]

\* the route that the well-formed lines make, the ids counted from first
StopsOfRows(rows, first) ==
    [i \in DOMAIN rows |-> StopOfRow(rows[i], first + i - 1)]

(***************************************************************************)
(* C10  load_from_file skips exactly the data rows from which sscanf does  *)
(* not assign all four of name, passengers, distance and time, and goes on *)
(* after them: the loaded route is the sequence of the well-formed rows of *)
(* the file, in file order, each appended with the next id, whatever the   *)
(* number in the id column.  Of the rows of broken.csv those of A, E and H *)
(* are loaded.                                                             *)
(***************************************************************************)
LoadSkipsMalformedRows ==
    [][ (op'.name = "load_from_file" /\ op'.ret = 1) =>
            /\ Stops(After)
               = StopsOfRows(SelectSeq(DataRows(fs[op'.file].data), WellFormed),
                             next_id)
            /\ next_id' = next_id + Len(Order(After))
            /\ op'.file = "broken.csv" =>
                   /\ Names(After) = << <<"A">>, <<"E">>, <<"H">> >>
                   /\ Len(DataRows(fs[op'.file].data)) = 6 ]_vars

\* broken.csv was loaded over a route of two stops: its rows 1, 4 and 6 make
\* the route, with the ids 3 to 5
LoadSkipsMalformedWitness ==
    /\ op.name = "load_from_file"
    /\ op.file = "broken.csv"
    /\ op.ret = 1
    /\ Names(Cur) = << <<"A">>, <<"E">>, <<"H">> >>
    /\ Stops(Cur)[1].id = 3
    /\ Stops(Cur)[3] = [id |-> 5, name |-> <<"H">>, passengers |-> 1,
                        dist_to_next |-> Dec(2, 0), time_to_next |-> Dec(3, 0)]
    /\ next_id = 6

\* the sequence xs with x put in after its first k elements
InsertedAt(xs, k, x) == SubSeq(xs, 1, k) \o <<x>> \o SubSeq(xs, k + 1, Len(xs))

\* the stop that the step created, as create_stop left it: allocated, not
\* yet linked
Created ==
    [head |-> head,
     mem |-> [a \in DOMAIN mem' |->
                 IF a = op'.node
                 THEN [mem'[a] EXCEPT !.prev = NULL, !.next = NULL]
                 ELSE mem[a]],
     next_id |-> next_id']

(***************************************************************************)
(* C11  insert_after(existing, newstop).  When existing is a stop of the   *)
(* route, newstop becomes its immediate successor, the former successor of *)
(* existing becomes the successor of newstop, and head and the order of    *)
(* the other stops stay.  When existing is NULL the result is that of      *)
(* insert_end(newstop): newstop becomes the tail, the predecessor of head, *)
(* or the head of a cycle of one stop when the route was empty.  Option 4  *)
(* of the menu, which looks existing up by name, is checked on every step. *)
(***************************************************************************)
InsertAfterSplices ==
    [][ op'.name = "insert_after" =>
            IF op'.ret # NULL
            THEN /\ op'.ret \in DOMAIN mem
                 /\ mem'[op'.ret].next = op'.node
                 /\ mem'[op'.node].prev = op'.ret
                 /\ mem'[op'.node].next = mem[op'.ret].next
                 /\ mem'[mem[op'.ret].next].prev = op'.node
                 /\ head' = head
                 /\ Order(After)
                    = InsertedAt(Order(Cur), IndexOf(Cur, op'.ret), op'.node)
                 /\ After = insert_after(Created, op'.ret, op'.node)
            ELSE /\ Order(After) = Order(Cur) \o <<op'.node>>
                 /\ head' = (IF head = NULL THEN op'.node ELSE head)
                 /\ mem'[head'].prev = op'.node
                 /\ mem'[op'.node].next = head'
                 /\ After = insert_after(Created, NULL, op'.node)
                 /\ After = insert_end(Created, op'.node) ]_vars

\* a stop B was inserted after the first of the two stops A of the route:
\* the route is [A, B, A] and head is still the older A
InsertAfterWitness ==
    /\ op.name = "insert_after"
    /\ op.ret = head
    /\ op.node # head
    /\ Names(Cur) = << <<"A">>, <<"B">>, <<"A">> >>
    /\ mem[head].next = op.node
    /\ Stops(Cur)[1].id < Stops(Cur)[3].id
    /\ Stops(Cur)[3].id < Stops(Cur)[2].id

(***************************************************************************)
(* C12  save_to_file returns 0 and writes nothing, the files staying as    *)
(* they were, when the route is empty or the file cannot be opened for     *)
(* writing; otherwise it returns 1 and the file holds the header line and  *)
(* one line for each stop.  In every case head, the stops with their       *)
(* links and fields, and next_id are left as they were.                    *)
(***************************************************************************)
SaveFailsCleanly ==
    [][ op'.name = "save_to_file" =>
            /\ head' = head
            /\ mem' = mem
            /\ next_id' = next_id
            /\ Stops(After) = Stops(Cur)
            /\ IF head = NULL \/ ~CanOpenForWrite(op'.file)
               THEN op'.ret = 0 /\ fs' = fs
               ELSE /\ op'.ret = 1
                    /\ fs'[op'.file].exists
                    /\ Len(FileLines(fs'[op'.file].data, 1))
                       = 1 + Len(Order(Cur))
                    /\ \A f \in DOMAIN fs \ {op'.file} : fs'[f] = fs[f] ]_vars

\* a route of two stops was to be saved where no file can be opened: 0 is
\* returned, route.csv holds what an earlier save wrote
SaveFailsWitness ==
    /\ op.name = "save_to_file"
    /\ op.file = UnwritablePath
    /\ op.ret = 0
    /\ Len(Order(Cur)) = 2
    /\ fs["route.csv"].exists
    /\ Len(FileLines(fs["route.csv"].data, 1)) = 2

\* a string with its ASCII capitals made small
Fold(str) == [i \in DOMAIN str |-> tolower(str[i])]

\* the places of the stops of R, counted from head, whose name is name when
\* both are folded
MatchingPlaces(R, name) ==
    {i \in DOMAIN Order(R) : Fold(R.mem[Order(R)[i]].name) = Fold(name)}

\* the first of them, NULL when there is none
FirstMatch(R, name) ==
    IF MatchingPlaces(R, name) = {} THEN NULL
    ELSE Order(R)[CHOOSE i \in MatchingPlaces(R, name) :
                      \A j \in MatchingPlaces(R, name) : i <= j]

(***************************************************************************)
(* C13  find_by_name(name) returns the first stop, counting from head and  *)
(* following next, whose name equals name once the ASCII capitals of both  *)
(* are made small, and NULL when no stop matches or the route is empty;    *)
(* of several stops with the name it is the one nearest to head.  So for   *)
(* every name the user can type, and for the result option 2 printed.      *)
(***************************************************************************)
FindByNameFirstMatch ==
    /\ \A n \in LookupNames \cup MetricNames \cup {<<"A">>, <<"B">>, <<>>} :
           find_by_name(Cur, n) = FirstMatch(Cur, n)
    /\ op.name = "find_by_name" => op.node = FirstMatch(Cur, op.a)
    /\ head = NULL => \A n \in LookupNames : find_by_name(Cur, n) = NULL

\* option 2 looked up "a" in the route [B, A, A] and found the second stop,
\* the older of the two stops A not being the nearer to head
FindByNameWitness ==
    /\ op.name = "find_by_name"
    /\ op.a = <<"a">>
    /\ Names(Cur) = << <<"B">>, <<"A">>, <<"A">> >>
    /\ op.node = Order(Cur)[2]
    /\ Stops(Cur)[2].id > Stops(Cur)[3].id

\* the place newstop is to take in a route of n stops when pos >= 2
PlaceFor(n, pos) == IF pos <= n + 1 THEN pos ELSE n + 1

(***************************************************************************)
(* C14  insert_at_position(newstop, pos) on a route of N >= 1 stops with   *)
(* pos >= 2 leaves head as it was and keeps the order of the stops that    *)
(* were there; newstop is at place pos, counted from 1 at head, when       *)
(* 2 <= pos <= N+1, and at place N+1, the tail, right before head in the   *)
(* cycle, for every pos > N+1.                                             *)
(***************************************************************************)
InsertAtPositionPlaces ==
    [][ (op'.name = "insert_at_position" /\ head # NULL /\ op'.pos >= 2) =>
            /\ head' = head
            /\ Order(After)
               = InsertedAt(Order(Cur),
                            PlaceFor(Len(Order(Cur)), op'.pos) - 1, op'.node)
            /\ Order(After)[PlaceFor(Len(Order(Cur)), op'.pos)] = op'.node
            /\ Stops(After)
               = InsertedAt(Stops(Cur),
                            PlaceFor(Len(Order(Cur)), op'.pos) - 1,
                            Fields(mem'[op'.node]))
            /\ op'.pos > Len(Order(Cur)) =>
                   /\ mem'[op'.node].next = head
                   /\ mem'[head].prev = op'.node ]_vars

\* a stop B was given position 4 in the route [A, A] of two stops: it is the
\* third and last, the two stops A before it as they were
InsertAtPositionWitness ==
    /\ op.name = "insert_at_position"
    /\ op.pos = 4
    /\ Names(Cur) = << <<"A">>, <<"A">>, <<"B">> >>
    /\ op.node = Order(Cur)[3]
    /\ mem[op.node].next = head
    /\ Stops(Cur)[1].id < Stops(Cur)[3].id
    /\ Stops(Cur)[2].id < Stops(Cur)[3].id

\* the sequence xs without its k-th element
RemovedAt(xs, k) == SubSeq(xs, 1, k - 1) \o SubSeq(xs, k + 1, Len(xs))

(***************************************************************************)
(* C15  delete_by_name(name) on a route of two stops or more in which a    *)
(* stop matches removes exactly the first matching stop, the one that      *)
(* find_by_name(name) returns, and returns 1; the stops that remain keep   *)
(* their order in the cycle and their fields; head stays when the stop     *)
(* removed was not head, and is the former successor of the stop removed   *)
(* when it was head.                                                       *)
(***************************************************************************)
DeleteRemovesFirstMatch ==
    [][ (/\ op'.name = "delete_by_name"
         /\ Cardinality(DOMAIN mem) >= 2
         /\ FirstMatch(Cur, op'.a) # NULL) =>
            /\ op'.ret = 1
            /\ op'.node = FirstMatch(Cur, op'.a)
            /\ DOMAIN mem' = DOMAIN mem \ {FirstMatch(Cur, op'.a)}
            /\ head' = (IF FirstMatch(Cur, op'.a) = head THEN mem[head].next
                        ELSE head)
            /\ Order(After)
               = RemovedAt(Order(Cur), IndexOf(Cur, FirstMatch(Cur, op'.a)))
            /\ Stops(After)
               = RemovedAt(Stops(Cur), IndexOf(Cur, FirstMatch(Cur, op'.a)))
            /\ next_id' = next_id ]_vars

\* the head of the sample route stayed while Library, its third stop, was
\* deleted: Market Road is followed by College
DeleteRemovesWitness ==
    /\ op.name = "delete_by_name"
    /\ op.a = <<"L", "I", "B", "R", "A", "R", "Y">>
    /\ op.ret = 1
    /\ Names(Cur) = <<CentralStation, MarketRoad, College, Park>>
    /\ [i \in 1..4 |-> Stops(Cur)[i].id] = <<1, 2, 4, 5>>

(***************************************************************************)
(* SpecWeights: insertions and deletions on the stops of MetricStops,      *)
(* whose weights make the additions of total_distance_time round.          *)
(***************************************************************************)
NextWeights ==
    \/ \E i \in MetricStops : MenuInsertEnd(i.name, i.passengers, i.dist, i.time)
    \/ \E i \in MetricStops :
           MenuInsertAfter(i.name, <<"b">>, i.passengers, i.dist, i.time)
    \/ \E i \in MetricStops : MenuInsertAt(i.name, 2, i.passengers, i.dist, i.time)
    \/ \E n \in PairNames : MenuDelete(n)
    \/ MenuTotal

SpecWeights == Init /\ [][NextWeights]_vars

\* the step is an insertion or a deletion
LinksStep ==
    op'.name \in {"insert_end", "insert_after", "insert_at_position",
                  "delete_by_name"}

\* every stop that is in the route before and after the step has its id,
\* name, passengers and weights as before
FieldsKept ==
    \A s \in DOMAIN mem \cap DOMAIN mem' : Fields(mem'[s]) = Fields(mem[s])

\* the step is a delete_by_name that removed a stop
DeleteStep == op'.name = "delete_by_name" /\ op'.ret = 1

\* the total after the step is the total before it less the weights of the
\* stop removed, in the reals
TotalLessRemoved ==
    /\ total_distance_time(After).dist
       = total_distance_time(Cur).dist - mem[op'.node].dist_to_next
    /\ total_distance_time(After).time
       = total_distance_time(Cur).time - mem[op'.node].time_to_next

\* no addition of total_distance_time rounds on the route R
TotalExact(R) ==
    /\ NoRounding(DistOf(R, Order(R)))
    /\ NoRounding(TimeOf(R, Order(R)))

(***************************************************************************)
(* C16 as stated.  No insertion and no deletion changes the id, name,      *)
(* passengers or weights of a stop; after a delete_by_name that removed a  *)
(* stop its predecessor has its old weights and total_distance_time is     *)
(* less by exactly the dist_to_next and time_to_next of the stop removed.  *)
(***************************************************************************)
DeleteLowersTotalExactly ==
    [][ /\ LinksStep => FieldsKept
        /\ DeleteStep =>
               /\ mem[op'.node].prev # op'.node =>
                      Fields(mem'[mem[op'.node].prev])
                      = Fields(mem[mem[op'.node].prev])
               /\ TotalLessRemoved ]_vars

(***************************************************************************)
(* C16 amended.  No insertion and no deletion changes the id, name,        *)
(* passengers or weights of a stop; after a delete_by_name that removed a  *)
(* stop its predecessor has its old weights, total_distance_time adds up   *)
(* the weights of the stops that remain, in their order, and it is less by *)
(* exactly the weights of the stop removed whenever no addition of the     *)
(* total before and of the total after rounds.                             *)
(***************************************************************************)
DeleteLowersTotalWithoutRounding ==
    [][ /\ LinksStep => FieldsKept
        /\ DeleteStep =>
               /\ mem[op'.node].prev # op'.node =>
                      Fields(mem'[mem[op'.node].prev])
                      = Fields(mem[mem[op'.node].prev])
               /\ total_distance_time(After).dist
                  = SumLeft(DistOf(Cur, RemovedAt(Order(Cur),
                                                  IndexOf(Cur, op'.node))))
               /\ total_distance_time(After).time
                  = SumLeft(TimeOf(Cur, RemovedAt(Order(Cur),
                                                  IndexOf(Cur, op'.node))))
               /\ (TotalExact(Cur) /\ TotalExact(After)) => TotalLessRemoved
       ]_vars

\* B was deleted from between A and C: A has its weights (1,2) and the total
\* of the route [A, C] is (6,8), the total (9,12) less the (3,4) of B
DeleteLowersTotalWitness ==
    /\ op.name = "delete_by_name"
    /\ op.a = <<"B">>
    /\ op.ret = 1
    /\ Names(Cur) = << <<"A">>, <<"C">> >>
    /\ Stops(Cur)[1].dist_to_next = Dec(1, 0)
    /\ Stops(Cur)[1].time_to_next = Dec(2, 0)
    /\ total_distance_time(Cur) = [dist |-> Dec(6, 0), time |-> Dec(8, 0)]
    /\ TotalExact(Cur)

(***************************************************************************)
(* C17  Option 9 of the menu reports not-found whenever one at least of    *)
(* the two names typed matches no stop of the route: also when the route   *)
(* is empty, also when the two names are the same text.                    *)
(***************************************************************************)
DistanceQueryReportsNotFound ==
    (op.name = "distance_between" /\ (NoMatch(Cur, op.a) \/ NoMatch(Cur, op.b)))
        => op.out = "not found"

\* the stops of the route have ids that differ from one another, each from 1
\* to next_id - 1
IdsDistinctBelowNext ==
    /\ \A s, t \in DOMAIN mem : mem[s].id = mem[t].id => s = t
    /\ \A s \in DOMAIN mem : 1 <= mem[s].id /\ mem[s].id < next_id

(***************************************************************************)
(* C18  In every state the menu reaches, populate_sample and               *)
(* load_from_file included, the stops of the route have pairwise distinct  *)
(* ids, each at least 1 and below next_id, and no step but                 *)
(* populate_sample, which sets next_id to 1 before it creates its five     *)
(* stops, makes next_id smaller.                                           *)
(***************************************************************************)
IdsDistinctCounterGrows ==
    /\ []IdsDistinctBelowNext
    /\ [][op'.name # "populate_sample" => next_id' >= next_id]_vars
    /\ [][op'.name = "populate_sample" => next_id' = 6]_vars

\* populate_sample has run when six ids had been handed out: next_id came
\* down from 7 to 6 and the route holds the ids 1 to 5
IdsDistinctWitness ==
    /\ op.name = "populate_sample"
    /\ 6 \in issued
    /\ next_id = 6
    /\ {mem[s].id : s \in DOMAIN mem} = 1..5
    /\ Cardinality(DOMAIN mem) = 5

\* the addresses met from the addresses of S following next, S included;
\* an address that is not allocated has no next
RECURSIVE Reach(_)
Reach(S) ==
    IF {mem[s].next : s \in S \cap DOMAIN mem} \subseteq S THEN S
    ELSE Reach(S \cup {mem[s].next : s \in S \cap DOMAIN mem})

\* the stops linked into the route
Linked == IF head = NULL THEN {} ELSE Reach({head})

\* the stops allocated and not freed are the stops linked into the route, and
\* no link of theirs leads to a freed stop
Owned ==
    /\ Linked = DOMAIN mem
    /\ \A s \in DOMAIN mem : mem[s].prev \in DOMAIN mem
    /\ clear_route(Cur).mem = EmptyHeap
    /\ clear_route(Cur).head = NULL

(***************************************************************************)
(* C19  Ownership.  Between any two menu operations the stops allocated    *)
(* and not yet freed are exactly the stops reachable from head: no stop    *)
(* is leaked, no freed stop is linked into the route or pointed at by      *)
(* head.  delete_by_name frees exactly the stop it removes, clear_route    *)
(* frees every stop of the route, and when the menu exits no stop is       *)
(* allocated.                                                              *)
(***************************************************************************)
RouteOwnsItsStops ==
    /\ []Owned
    /\ [][DeleteStep => (/\ op'.node \in DOMAIN mem
                         /\ DOMAIN mem' = DOMAIN mem \ {op'.node})]_vars
    /\ [][op'.name = "exit" => (mem' = EmptyHeap /\ head' = NULL)]_vars
    /\ [](op.name = "exit" => (mem = EmptyHeap /\ head = NULL))

\* the menu was left after populate_sample had made its five stops: nothing
\* is allocated
RouteOwnsWitness ==
    /\ op.name = "exit"
    /\ mem = EmptyHeap
    /\ head = NULL
    /\ next_id = 6
    /\ issued = 1..5

(***************************************************************************)
(* The traversal loops, counted.  Each operator follows its loop as the    *)
(* code writes it and gives the number of stops the loop has visited when  *)
(* it stops, k being the number visited so far; the count is given up at   *)
(* VisitLimit, so that it is defined whatever the links are.               *)
(***************************************************************************)
VisitLimit(R) == Cardinality(DOMAIN R.mem) + 2

\* the do-while loop of find_by_name
RECURSIVE FindNameVisits(_, _, _, _)
FindNameVisits(R, cur, name, k) ==
    IF k >= VisitLimit(R) THEN k
    ELSE IF strcasecmp(R.mem[cur].name, name) = 0 THEN k
    ELSE IF R.mem[cur].next # R.head
    THEN FindNameVisits(R, R.mem[cur].next, name, k + 1)
    ELSE k

\* the do-while loop of find_by_id
RECURSIVE FindIdVisits(_, _, _, _)
FindIdVisits(R, cur, id, k) ==
    IF k >= VisitLimit(R) THEN k
    ELSE IF R.mem[cur].id = id THEN k
    ELSE IF R.mem[cur].next # R.head
    THEN FindIdVisits(R, R.mem[cur].next, id, k + 1)
    ELSE k

\* the do-while loop of total_distance_time, and that of save_to_file, which
\* has the same form
RECURSIVE TotalVisits(_, _, _)
TotalVisits(R, cur, k) ==
    IF k >= VisitLimit(R) THEN k
    ELSE IF R.mem[cur].next # R.head THEN TotalVisits(R, R.mem[cur].next, k + 1)
    ELSE k

\* the do-while loop of distance_between
RECURSIVE BetweenVisits(_, _, _, _, _)
BetweenVisits(R, start, target, cur, k) ==
    IF k >= VisitLimit(R) THEN k
    ELSE IF R.mem[cur].next = target THEN k
    ELSE IF R.mem[cur].next # start
    THEN BetweenVisits(R, start, target, R.mem[cur].next, k + 1)
    ELSE k

\* the while loop of clear_route, from cur = head->next: k stops freed so
\* far; free(head) after the loop is one more
RECURSIVE ClearVisits(_, _, _)
ClearVisits(R, cur, k) ==
    IF k >= VisitLimit(R) THEN k
    ELSE IF cur # R.head THEN ClearVisits(R, R.mem[cur].next, k + 1)
    ELSE k + 1

\* the loop of insert_at_position without its test cur->next != head: the
\* walk goes on round the cycle until idx reaches pos - 1
RECURSIVE PositionStepsRound(_, _, _, _, _)
PositionStepsRound(R, cur, idx, pos, k) ==
    IF k >= VisitLimit(R) THEN k
    ELSE IF idx < pos - 1
    THEN PositionStepsRound(R, R.mem[cur].next, idx + 1, pos, k + 1)
    ELSE k

\* the while loop of insert_at_position: the number of steps cur has made
RECURSIVE PositionSteps(_, _, _, _, _)
PositionSteps(R, cur, idx, pos, k) ==
    IF k >= VisitLimit(R) THEN k
    ELSE IF R.mem[cur].next # R.head /\ idx < pos - 1
    THEN PositionSteps(R, R.mem[cur].next, idx + 1, pos, k + 1)
    ELSE k

\* the names and the positions the loops are counted for
CountedNames == LookupNames \cup MetricNames \cup {<<"A">>, <<"B">>, <<>>}

CountedPositions == (2 .. (MaxStops + 2)) \cup {1000, 2147483647}

(***************************************************************************)
(* C20  Every traversal loop stops, in every state the menu reaches.  On   *)
(* a route of N >= 1 stops the loops of find_by_name and find_by_id visit  *)
(* at most N stops, those of total_distance_time and save_to_file visit    *)
(* the N stops, the loop of distance_between visits at most N stops from   *)
(* the start, clear_route frees the N stops, and the walk of               *)
(* insert_at_position makes at most N - 1 steps for any pos, however       *)
(* large.  On an empty route none of the loops is entered.                 *)
(***************************************************************************)
LoopsVisitAtMostN ==
    head # NULL =>
        /\ \A n \in CountedNames :
               FindNameVisits(Cur, head, n, 1) <= Cardinality(DOMAIN mem)
        /\ \A id \in 0 .. (MaxId + 1) :
               FindIdVisits(Cur, head, id, 1) <= Cardinality(DOMAIN mem)
        /\ TotalVisits(Cur, head, 1) = Cardinality(DOMAIN mem)
        /\ \A a, b \in DOMAIN mem :
               a # b => BetweenVisits(Cur, a, b, a, 1) <= Cardinality(DOMAIN mem)
        /\ ClearVisits(Cur, mem[head].next, 0) = Cardinality(DOMAIN mem)
        /\ \A pos \in CountedPositions :
               PositionSteps(Cur, head, 1, pos, 0) <= Cardinality(DOMAIN mem) - 1

\* option 2 went once round the three stops of the route and found no stop
\* z; a walk to position 1000 would make two steps
LoopsVisitWitness ==
    /\ op.name = "find_by_name"
    /\ op.a = <<"z">>
    /\ op.node = NULL
    /\ Cardinality(DOMAIN mem) = 3
    /\ FindNameVisits(Cur, head, op.a, 1) = 3
    /\ PositionSteps(Cur, head, 1, 1000, 0) = 2
=============================================================================
